---- MODULE Spec2Model ----
(***************************************************************************)
(* Model of static-server (index.js): the request listener built by        *)
(* createRequestListener, the static handler built by createStaticHandler, *)
(* the resolver getStaticFile with urlToPath, the HttpError class and the  *)
(* bootstrap staticServer.                                                 *)
(*                                                                         *)
(* Strings (URLs, directories, file paths) are sequences of pieces: a      *)
(* piece is the separator "/", a dot ".", or a word without "/" and ".".   *)
(* So "/docs/.priv" is <<"/","docs","/",".","priv">> and "index.html" is   *)
(* <<"index",".","html">>.  String concatenation is \o.                    *)
(***************************************************************************)
EXTENDS Integers, Sequences, FiniteSets, TLC

VARIABLES
  config,     \* the options object handed to staticServer: directory, handlers
  server,     \* "init" | "listening" | "exited"
  exitCode,   \* argument of exit(), -1 while the process has not exited
  message,    \* message printed after 'Server error'
  handlers,   \* the handler list captured by createRequestListener
  pc,         \* position of the request listener for the request in flight
  url,        \* request.url
  idx,        \* position of the for..of loop over handlers (1-based)
  res,        \* the response object
  err,        \* the error travelling through the catch blocks
  sf,         \* what getStaticFile did for this request
  invoked,    \* indices of the handlers invoked so far, in order
  hist,       \* one record per handler that returned or threw
  reads,      \* file paths handed to fs.readFile
  log,        \* status codes printed with console.log(color(code), url)
  unanswered, \* how the loop ended when the response was not finalized
  lateWrite,  \* a write was attempted on a finalized response
  flights,    \* concurrent requests: the listener's state for each of them
  alive       \* the process has not died of an unhandled rejection

vars == <<config, server, exitCode, message, handlers, pc, url, idx, res, err,
          sf, invoked, hist, reads, log, unanswered, lateWrite, flights,
          alive>>

reqVars == <<pc, url, idx, res, err, sf, invoked, hist, reads, log,
             unanswered, lateWrite>>

concVars == <<flights, alive>>

(***************************************************************************)
(* Bounds                                                                  *)
(***************************************************************************)
MaxUrlLen == 3      \* pieces of request.url after the leading "/"
MaxCustom == 2      \* caller-configured handlers

(***************************************************************************)
(* Strings and paths                                                       *)
(***************************************************************************)
UrlPieces == {"/", ".", "docs", "priv"}

Urls == { <<"/">> \o s : s \in UNION { [1..n -> UrlPieces] : n \in 0..MaxUrlLen } }

IndexHtml == <<"index", ".", "html">>

\* process.cwd(), as a list of path segments
Cwd == << <<"pub">> >>

EndsWithSlash(s) == s # <<>> /\ s[Len(s)] = "/"

IsPrefix(p, q) == Len(p) <= Len(q) /\ SubSeq(q, 1, Len(p)) = p

RECURSIVE SplitAcc(_, _, _)
SplitAcc(s, cur, acc) ==
  IF s = <<>> THEN Append(acc, cur)
  ELSE IF Head(s) = "/" THEN SplitAcc(Tail(s), <<>>, Append(acc, cur))
  ELSE SplitAcc(Tail(s), Append(cur, Head(s)), acc)

\* the segments of a string between its separators
Split(s) == SplitAcc(s, <<>>, <<>>)

RECURSIVE Normalize(_, _)
Normalize(segs, acc) ==
  IF segs = <<>> THEN acc
  ELSE LET sg == Head(segs) IN
    IF sg = <<>> \/ sg = <<".">> THEN Normalize(Tail(segs), acc)
    ELSE IF sg = <<".", ".">>
      THEN Normalize(Tail(segs),
                     IF acc = <<>> THEN acc ELSE SubSeq(acc, 1, Len(acc) - 1))
    ELSE Normalize(Tail(segs), Append(acc, sg))

\* path.resolve(s): an absolute, canonical path as a list of segments
Resolve(s) ==
  IF s # <<>> /\ Head(s) = "/" THEN Normalize(Split(s), <<>>)
  ELSE Normalize(Cwd \o Split(s), <<>>)

urlToPath(directory, u) ==
  Resolve(directory \o (IF EndsWithSlash(u) THEN u \o <<"/">> \o IndexHtml ELSE u))

\* path.parse(filePath).base
Base(path) == IF path = <<>> THEN <<>> ELSE path[Len(path)]

LastDot(base) ==
  LET ds == { i \in 1..Len(base) : base[i] = "." }
  IN IF ds = {} THEN 0 ELSE CHOOSE i \in ds : \A j \in ds : j <= i

\* path.parse(filePath).ext: from the last dot, unless that dot leads the name
Ext(base) ==
  IF LastDot(base) <= 1 THEN <<>> ELSE SubSeq(base, LastDot(base), Len(base))

\* path.parse(filePath).name
Name(base) == SubSeq(base, 1, Len(base) - Len(Ext(base)))

StartsWithDot(s) == s # <<>> /\ s[1] = "."

\* mimeTypes.contentType(ext): false for an extension the table does not know
contentType(ext) ==
  IF ext = <<".", "html">> THEN "text/html; charset=utf-8" ELSE "false"

(***************************************************************************)
(* The file system the server runs on                                      *)
(***************************************************************************)
PubS == <<"pub">>
DocsS == <<"docs">>
PrivS == <<"priv">>
DotPrivS == <<".", "priv">>
DotDocsS == <<".", "docs">>
DocsPrivS == <<"docs", ".", "priv">>

\* "dir", "file", "xdir"/"xfile" (no permission) or "absent"
Kind(path) ==
  CASE path = <<>> -> "dir"
    [] path = <<PrivS>> -> "file"
    [] path = <<IndexHtml>> -> "file"
    [] path = <<PubS>> -> "dir"
    [] path = <<PubS, IndexHtml>> -> "file"
    [] path = <<PubS, DotPrivS>> -> "file"
    [] path = <<PubS, DotDocsS>> -> "dir"
    [] path = <<PubS, DocsPrivS>> -> "file"
    [] path = <<PubS, PrivS>> -> "xfile"
    [] path = <<PubS, DocsS>> -> "dir"
    [] path = <<PubS, DocsS, IndexHtml>> -> "dir"
    [] path = <<PubS, DocsS, PrivS>> -> "xdir"
    [] OTHER -> "absent"

\* the error code of walking to the parent of path, "OK" if it can be reached
RECURSIVE Walk(_, _)
Walk(path, n) ==
  IF n >= Len(path) THEN "OK"
  ELSE LET k == Kind(SubSeq(path, 1, n)) IN
    CASE k = "dir" -> Walk(path, n + 1)
      [] k = "xdir" -> "EACCES"
      [] k \in {"file", "xfile"} -> "ENOTDIR"
      [] OTHER -> "ENOENT"

\* outcome of fs.readFile(path)
ReadFile(path) ==
  IF Walk(path, 0) # "OK" THEN Walk(path, 0)
  ELSE CASE Kind(path) = "file" -> "OK"
         [] Kind(path) = "dir" -> "EISDIR"
         [] Kind(path) \in {"xfile", "xdir"} -> "EACCES"
         [] OTHER -> "ENOENT"

\* outcome of fs.stat(path): "DIR", "NOTDIR" or an error code
Stat(path) ==
  IF Walk(path, 0) # "OK" THEN Walk(path, 0)
  ELSE CASE Kind(path) \in {"dir", "xdir"} -> "DIR"
         [] Kind(path) \in {"file", "xfile"} -> "NOTDIR"
         [] OTHER -> "ENOENT"

(***************************************************************************)
(* Errors                                                                  *)
(***************************************************************************)
\* http.STATUS_CODES
statusCodes(code) ==
  CASE code = 400 -> "Bad Request"
    [] code = 403 -> "Forbidden"
    [] code = 404 -> "Not Found"
    [] code = 500 -> "Internal Server Error"
    [] code = 503 -> "Service Unavailable"
    [] OTHER -> "undefined"

NoError == [kind |-> "none", statusCode |-> 0, statusMessage |-> ""]

\* any thrown value that is not an HttpError; it has no statusCode
RawError == [kind |-> "Error", statusCode |-> 0, statusMessage |-> "undefined"]

\* the constructor with its lower limit off by one
HttpErrorAbove400(code) ==
  IF code <= 400 \/ code > 599 THEN RawError
  ELSE [kind |-> "HttpError", statusCode |-> code,
        statusMessage |-> statusCodes(code)]

\* new HttpError(code): the constructor throws a plain Error outside 400..599
HttpError(code) ==
  IF code < 400 \/ code > 599 THEN RawError
  ELSE [kind |-> "HttpError", statusCode |-> code,
        statusMessage |-> statusCodes(code)]

\* new HttpError(...args): the code defaults to 400 when no argument is given
NewHttpError(args) == HttpError(IF args = <<>> THEN 400 ELSE args[1])

(***************************************************************************)
(* The response object (http.ServerResponse)                               *)
(***************************************************************************)
NoBody == [kind |-> "none", text |-> "", path |-> <<>>, by |-> 0]
TextBody(t) == [kind |-> "text", text |-> t, path |-> <<>>, by |-> 0]
FileBody(p) == [kind |-> "file", text |-> "", path |-> p, by |-> 0]
HandlerBody(i) == [kind |-> "handler", text |-> "", path |-> <<>>, by |-> i]

FreshResponse ==
  [headersSent |-> FALSE, writableEnded |-> FALSE, statusCode |-> 200,
   contentType |-> "", location |-> <<>>, body |-> NoBody]

\* response.writeHead(code, headers): throws once the headers have been sent
writeHead(r, code, ctype, loc) ==
  IF r.headersSent THEN [res |-> r, threw |-> TRUE]
  ELSE [res |-> [r EXCEPT !.headersSent = TRUE, !.statusCode = code,
                          !.contentType = ctype, !.location = loc],
        threw |-> FALSE]

\* response.end(body): sends implicit headers if needed; no effect once ended
end(r, body) ==
  IF r.writableEnded THEN r
  ELSE [r EXCEPT !.headersSent = TRUE, !.writableEnded = TRUE, !.body = body]

(***************************************************************************)
(* Caller-configured handlers                                              *)
(***************************************************************************)
\* argument lists a custom handler passes to new HttpError(...)
ThrowArgs == {<<>>, <<399>>, <<599>>, <<600>>}

\* what one invocation of a custom handler does, in this order:
\* writeHead(200, text/plain), end(body), next(), throw
Behaviours ==
  [head : BOOLEAN, end : BOOLEAN, next : BOOLEAN,
   throw : {"none", "raw"}, args : {<<>>}]
  \cup [head : BOOLEAN, end : BOOLEAN, next : BOOLEAN,
        throw : {"http"}, args : ThrowArgs]

\* the value the handler throws at its end, NoError if it returns
Thrown(b) ==
  CASE b.throw = "none" -> NoError
    [] b.throw = "raw" -> RawError
    [] OTHER -> NewHttpError(b.args)

\* the constructor calls of the handler: the arguments and what came of them
Made(b) ==
  IF b.throw = "http"
  THEN << [args |-> b.args, value |-> NewHttpError(b.args)] >>
  ELSE <<>>

\* the response, the continuation flag and the thrown value after handler i
\* ran behaviour b on response r
RunCustom(r, b, i) ==
  LET wh == IF b.head THEN writeHead(r, 200, "text/plain", <<>>)
            ELSE [res |-> r, threw |-> FALSE]
  IN IF wh.threw
     THEN [res |-> r, next |-> FALSE, thrown |-> RawError, made |-> <<>>]
     ELSE [res |-> IF b.end THEN end(wh.res, HandlerBody(i)) ELSE wh.res,
           next |-> b.next,
           thrown |-> Thrown(b),
           made |-> Made(b)]

(***************************************************************************)
(* getStaticFile and the static handler                                    *)
(***************************************************************************)
Returned(code, ctype, loc, body) ==
  [kind |-> "return", statusCode |-> code, contentType |-> ctype,
   location |-> loc, body |-> body]

Raised(e) ==
  [kind |-> e.kind, statusCode |-> e.statusCode, contentType |-> "",
   location |-> <<>>, body |-> NoBody]

\* getStaticFile without its dotfile test
DeniesNothing(path) == FALSE

\* getStaticFile from the await on, with the redirect to the URL itself
ReadResultSameLocation(outcome, u, path) ==
  CASE outcome = "OK" ->
         Returned(200, contentType(Ext(Base(path))), <<>>, FileBody(path))
    [] outcome = "EACCES" -> Raised(HttpError(403))
    [] outcome = "EISDIR" -> Returned(302, "", u, TextBody(""))
    [] outcome = "ENOENT" -> Raised(HttpError(404))
    [] OTHER -> Raised(HttpError(500))

\* getStaticFile from the await on, rethrowing the failures it does not know
ReadResultRethrows(outcome, u, path) ==
  CASE outcome = "OK" ->
         Returned(200, contentType(Ext(Base(path))), <<>>, FileBody(path))
    [] outcome = "EACCES" -> Raised(HttpError(403))
    [] outcome = "EISDIR" -> Returned(302, "", u \o <<"/">>, TextBody(""))
    [] outcome = "ENOENT" -> Raised(HttpError(404))
    [] OTHER -> Raised(RawError)

\* getStaticFile up to the await: the dotfile test on the parsed name
DeniesDotfile(path) == StartsWithDot(Name(Base(path)))

\* getStaticFile from the await on: the value returned or raised for the
\* outcome of fs.readFile(path)
ReadResult(outcome, u, path) ==
  CASE outcome = "OK" ->
         Returned(200, contentType(Ext(Base(path))), <<>>, FileBody(path))
    [] outcome = "EACCES" -> Raised(HttpError(403))
    [] outcome = "EISDIR" -> Returned(302, "", u \o <<"/">>, TextBody(""))
    [] outcome = "ENOENT" -> Raised(HttpError(404))
    [] OTHER -> Raised(HttpError(500))

NoStaticFile ==
  [called |-> FALSE, path |-> <<>>, read |-> FALSE, outcome |-> "none",
   result |-> Raised(NoError)]

\* the static handler deferring to the next handler on every failure
StaticHandleAlwaysDefers(r, result) ==
  IF result.kind = "return"
  THEN LET wh == writeHead(r, result.statusCode, result.contentType,
                           result.location)
       IN IF wh.threw
          THEN [res |-> r, next |-> FALSE, thrown |-> RawError,
                made |-> <<>>]
          ELSE [res |-> end(wh.res, result.body), next |-> FALSE,
                thrown |-> NoError, made |-> <<>>]
  ELSE [res |-> r, next |-> TRUE, thrown |-> NoError, made |-> <<>>]

\* the handler of createStaticHandler once getStaticFile has settled
StaticHandle(r, result) ==
  IF result.kind = "return"
  THEN LET wh == writeHead(r, result.statusCode, result.contentType,
                           result.location)
       IN IF wh.threw
          THEN [res |-> r, next |-> FALSE, thrown |-> RawError,
                made |-> <<>>]
          ELSE [res |-> end(wh.res, result.body), next |-> FALSE,
                thrown |-> NoError, made |-> <<>>]
  ELSE IF result.statusCode = 404
  THEN [res |-> r, next |-> TRUE, thrown |-> NoError, made |-> <<>>]
  ELSE [res |-> r, next |-> FALSE,
        thrown |-> [kind |-> result.kind, statusCode |-> result.statusCode,
                    statusMessage |-> statusCodes(result.statusCode)],
        made |-> <<>>]

(***************************************************************************)
(* staticServer                                                            *)
(***************************************************************************)
Directories ==
  { <<>>,                                   \* '' : no static handler
    <<".">>,                                \* the default
    <<"/", "pub">>,
    <<"/", "priv">>,                        \* a file
    <<"/", "docs">>,                        \* missing
    <<"docs", "/", "priv", "/", "docs">>,   \* below an inaccessible directory
    <<"/", "priv", "/", "docs">> }          \* below a file

CustomLists == { [i \in 1..n |-> "custom"] : n \in 0..MaxCustom }

\* an error message: a text, and the directory interpolated after it
Message(text, directory) == [text |-> text, directory |-> directory]

NoMessage == Message("", <<>>)

\* the directory test without the look at stat.isDirectory()
DirectoryErrorAnyStat(directory) ==
  LET st == Stat(Resolve(directory)) IN
  CASE st \in {"DIR", "NOTDIR"} -> NoMessage
    [] st = "ENOENT" -> Message("directory not found", directory)
    [] st = "EACCES" -> Message("permission denied", directory)
    [] OTHER -> Message(st, <<>>)

\* the message of the error thrown by the directory test, NoMessage if it
\* passes; an error other than ENOENT and EACCES keeps its own message
DirectoryError(directory) ==
  LET st == Stat(Resolve(directory)) IN
  CASE st = "DIR" -> NoMessage
    [] st = "NOTDIR" -> Message("not a directory", <<>>)
    [] st = "ENOENT" -> Message("directory not found", directory)
    [] st = "EACCES" -> Message("permission denied", directory)
    [] OTHER -> Message(st, <<>>)

\* the static handler put in front of the caller's handlers
WithStaticFirst(custom) == <<"static">> \o custom

\* the handler list of a server with a directory: the caller's handlers, then
\* the static handler
WithStaticHandler(custom) == custom \o <<"static">>

\* the requests that can be in flight together
Slots == {"a", "b"}

\* the listener's state for a request slot with no request
IdleFlight ==
  [pc |-> "idle", url |-> <<>>, idx |-> 0, res |-> FreshResponse,
   err |-> NoError, acts |-> <<>>, invoked |-> <<>>]

\* the caller's list had the static handler been pushed onto it
CallerListPushed(custom) == custom \o <<"static">>

\* the caller's list after staticServer built its own: the spread copies the
\* elements and the assignment rebinds the parameter only
CallerList(custom) == custom

Init ==
  /\ config \in [directory : Directories, handlers : CustomLists]
  /\ server = "init"
  /\ exitCode = -1
  /\ message = NoMessage
  /\ handlers = <<>>
  /\ pc = "idle"
  /\ url = <<>>
  /\ idx = 0
  /\ res = FreshResponse
  /\ err = NoError
  /\ sf = NoStaticFile
  /\ invoked = <<>>
  /\ hist = <<>>
  /\ reads = <<>>
  /\ log = <<>>
  /\ unanswered = "no"
  /\ lateWrite = FALSE
  /\ flights = [s \in Slots |-> IdleFlight]
  /\ alive = TRUE

\* staticServer up to server.listen(): the directory test, the handler list
StaticServer ==
  /\ server = "init"
  /\ IF config.directory # <<>> /\ DirectoryError(config.directory) # NoMessage
     THEN /\ server' = "exited"
          /\ exitCode' = 1
          /\ message' = DirectoryError(config.directory)
          /\ UNCHANGED handlers
     ELSE /\ server' = "binding"
          /\ handlers' = IF config.directory # <<>>
                         THEN WithStaticHandler(config.handlers)
                         ELSE config.handlers
          /\ UNCHANGED <<exitCode, message>>
  /\ config' = IF config.directory # <<>>
                   /\ DirectoryError(config.directory) = NoMessage
                THEN [config EXCEPT !.handlers = CallerList(config.handlers)]
                ELSE config
  /\ UNCHANGED reqVars
  /\ UNCHANGED concVars

\* the listening callback of server.listen()
Listening ==
  /\ server = "binding"
  /\ server' = "listening"
  /\ UNCHANGED <<config, exitCode, message, handlers, reqVars>>
  /\ UNCHANGED concVars

\* the 'error' event of server.listen(): no listener is registered for it, so
\* it is an uncaught exception outside staticServer's try block
ListenError ==
  /\ server = "binding"
  /\ server' = "crashed"
  /\ exitCode' = 1
  /\ UNCHANGED <<config, message, handlers, reqVars>>
  /\ UNCHANGED concVars

(***************************************************************************)
(* The request listener of createRequestListener                           *)
(***************************************************************************)
\* the break test without the look at response.writableEnded
ShouldBreakOnNextOnly(next, r) == ~next

\* the break test after a handler returned
ShouldBreak(next, r) == ~next \/ r.writableEnded

\* the 501 the source comment considers instead of the 404
NoHandlerResponded501 == HttpError(501)

\* the error thrown after the loop when no handler responded
NoHandlerResponded == HttpError(404)

\* the first catch block, answering an unexpected error with a 503
ClassifyErrorAs503(e) == IF e.kind = "HttpError" THEN e ELSE HttpError(503)

\* the first catch block: the error handed on to the render step
ClassifyError(e) == IF e.kind = "HttpError" THEN e ELSE HttpError(500)

\* the render step: writeHead then end, and whether writeHead threw
RenderError(r, e) ==
  LET wh == writeHead(r, e.statusCode, "text/plain", <<>>)
  IN IF wh.threw THEN [res |-> r, threw |-> TRUE]
     ELSE [res |-> end(wh.res, TextBody(e.statusMessage)), threw |-> FALSE]

srvVars == <<config, server, exitCode, message, handlers>>

\* a request arrives: the listener is called with a fresh response
Request(u) ==
  /\ server = "listening"
  /\ pc = "idle"
  /\ pc' = "loop"
  /\ url' = u
  /\ idx' = 1
  /\ res' = FreshResponse
  /\ err' = NoError
  /\ sf' = NoStaticFile
  /\ invoked' = <<>>
  /\ hist' = <<>>
  /\ reads' = <<>>
  /\ log' = <<>>
  /\ unanswered' = "no"
  /\ lateWrite' = FALSE
  /\ UNCHANGED srvVars
  /\ UNCHANGED concVars

\* what the loop does once handler idx has returned or thrown
Returns(out) ==
  /\ res' = out.res
  /\ hist' = Append(hist, [next |-> out.next, thrown |-> out.thrown.kind,
                           res |-> out.res, made |-> out.made])
  /\ IF out.thrown.kind # "none"
     THEN /\ pc' = "catch"
          /\ err' = out.thrown
          /\ UNCHANGED idx
     ELSE /\ err' = err
          /\ IF ShouldBreak(out.next, out.res)
             THEN pc' = "after" /\ UNCHANGED idx
             ELSE pc' = "loop" /\ idx' = idx + 1

\* the loop invokes a caller-configured handler, which runs behaviour b
CallCustom(b) ==
  /\ pc = "loop"
  /\ idx <= Len(handlers)
  /\ handlers[idx] = "custom"
  /\ invoked' = Append(invoked, idx)
  /\ Returns(RunCustom(res, b, idx))
  /\ UNCHANGED <<srvVars, url, sf, reads, log, unanswered, lateWrite>>
  /\ UNCHANGED concVars

\* the loop invokes the static handler: getStaticFile runs up to its await
CallStatic ==
  /\ pc = "loop"
  /\ idx <= Len(handlers)
  /\ handlers[idx] = "static"
  /\ invoked' = Append(invoked, idx)
  /\ LET path == urlToPath(config.directory, url) IN
     IF DeniesDotfile(path)
     THEN /\ sf' = [called |-> TRUE, path |-> path, read |-> FALSE,
                    outcome |-> "none", result |-> Raised(HttpError(403))]
          /\ Returns(StaticHandle(res, Raised(HttpError(403))))
          /\ UNCHANGED reads
     ELSE /\ sf' = [called |-> TRUE, path |-> path, read |-> TRUE,
                    outcome |-> "pending", result |-> Raised(NoError)]
          /\ reads' = Append(reads, path)
          /\ pc' = "read"
          /\ UNCHANGED <<idx, res, err, hist>>
  /\ UNCHANGED <<srvVars, url, log, unanswered, lateWrite>>
  /\ UNCHANGED concVars

\* fs.readFile settles: getStaticFile returns or raises, the static handler
\* writes the response, continues or rethrows
ReadSettles ==
  /\ pc = "read"
  /\ LET outcome == ReadFile(sf.path)
         result == ReadResult(outcome, url, sf.path)
     IN /\ sf' = [sf EXCEPT !.outcome = outcome, !.result = result]
        /\ Returns(StaticHandle(res, result))
        /\ lateWrite' = (lateWrite \/ (result.kind = "return" /\ res.writableEnded))
  /\ UNCHANGED <<srvVars, url, invoked, reads, log, unanswered>>
  /\ UNCHANGED concVars

\* the loop is over: every handler continued
LoopExhausted ==
  /\ pc = "loop"
  /\ idx > Len(handlers)
  /\ pc' = "after"
  /\ UNCHANGED <<srvVars, url, idx, res, err, sf, invoked, hist, reads, log,
                 unanswered, lateWrite>>
  /\ UNCHANGED concVars

\* after the loop: log a finalized response, else throw the 404
AfterLoop ==
  /\ pc = "after"
  /\ IF res.writableEnded
     THEN /\ log' = Append(log, res.statusCode)
          /\ pc' = "done"
          /\ UNCHANGED <<err, unanswered>>
     ELSE /\ err' = NoHandlerResponded
          /\ unanswered' = IF res.headersSent THEN "headers" ELSE "clean"
          /\ pc' = "catch"
          /\ UNCHANGED log
  /\ UNCHANGED <<srvVars, url, idx, res, sf, invoked, hist, reads, lateWrite>>
  /\ UNCHANGED concVars

\* the first catch block: log an HttpError, replace anything else by a 500
Catch ==
  /\ pc = "catch"
  /\ log' = IF err.kind = "HttpError" THEN Append(log, err.statusCode) ELSE log
  /\ err' = ClassifyError(err)
  /\ pc' = "render"
  /\ UNCHANGED <<srvVars, url, idx, res, sf, invoked, hist, reads, unanswered,
                 lateWrite>>
  /\ UNCHANGED concVars

\* the second catch block: write the error to the response; a throw of
\* writeHead leaves the listener's promise rejected
Render ==
  /\ pc = "render"
  /\ lateWrite' = (lateWrite \/ res.writableEnded)
  /\ res' = RenderError(res, err).res
  /\ pc' = IF RenderError(res, err).threw THEN "escaped" ELSE "done"
  /\ UNCHANGED <<srvVars, url, idx, err, sf, invoked, hist, reads, log,
                 unanswered>>
  /\ UNCHANGED concVars

\* the request is over and its objects are dropped; the server waits for the
\* next one
Finish ==
  /\ pc = "done"
  /\ pc' = "idle"
  /\ url' = <<>>
  /\ idx' = 0
  /\ res' = FreshResponse
  /\ err' = NoError
  /\ sf' = NoStaticFile
  /\ invoked' = <<>>
  /\ hist' = <<>>
  /\ reads' = <<>>
  /\ log' = <<>>
  /\ unanswered' = "no"
  /\ lateWrite' = FALSE
  /\ UNCHANGED srvVars
  /\ UNCHANGED concVars

Next ==
  \/ StaticServer
  \/ Listening
  \/ ListenError
  \/ \E u \in Urls : Request(u)
  \/ \E b \in Behaviours : CallCustom(b)
  \/ CallStatic
  \/ ReadSettles
  \/ LoopExhausted
  \/ AfterLoop
  \/ Catch
  \/ Render
  \/ Finish

Spec == Init /\ [][Next]_vars

(***************************************************************************)
(* Concurrent requests: the listener is an async function, so the calls of *)
(* several requests interleave at its awaits                               *)
(***************************************************************************)
ConcUrls == { <<"/">>, <<"/", "docs">>, <<"/", "priv">>, <<"/", ".", "priv">> }

\* handlers that write, continue or throw a plain Error
ConcBehaviours ==
  { b \in Behaviours :
      /\ b.throw # "http"
      /\ b.end => b.head
      /\ b.throw = "raw" => (~b.head /\ ~b.next) }

\* the listener from the end of the loop on: no await is left, so the log,
\* the 404 and both catch blocks run as one step
ListenerTail(r, e) ==
  LET thrown == IF e.kind # "none" THEN e
                ELSE IF r.writableEnded THEN NoError
                ELSE NoHandlerResponded
  IN IF thrown.kind = "none" THEN [res |-> r, threw |-> FALSE]
     ELSE RenderError(r, ClassifyError(thrown))

\* the flight after the awaited handler settled with out
AfterHandler(fl, out) ==
  LET goOn == /\ out.thrown.kind = "none"
              /\ ~ShouldBreak(out.next, out.res)
              /\ fl.idx < Len(handlers)
  IN [fl EXCEPT !.res = out.res,
                !.err = out.thrown,
                !.idx = IF goOn THEN fl.idx + 1 ELSE fl.idx,
                !.pc = IF goOn THEN "loop" ELSE "tail"]

\* getStaticFile and the static handler for url u on response r
ServeStatic(r, u) ==
  LET path == urlToPath(config.directory, u)
  IN StaticHandle(r, IF DeniesDotfile(path) THEN Raised(HttpError(403))
                     ELSE ReadResult(ReadFile(path), u, path))

InitConc ==
  /\ config = [directory |-> <<"/", "pub">>, handlers |-> <<"custom">>]
  /\ server = "listening"
  /\ exitCode = -1
  /\ message = NoMessage
  /\ handlers = WithStaticHandler(config.handlers)
  /\ pc = "idle"
  /\ url = <<>>
  /\ idx = 0
  /\ res = FreshResponse
  /\ err = NoError
  /\ sf = NoStaticFile
  /\ invoked = <<>>
  /\ hist = <<>>
  /\ reads = <<>>
  /\ log = <<>>
  /\ unanswered = "no"
  /\ lateWrite = FALSE
  /\ flights = [s \in Slots |-> IdleFlight]
  /\ alive = TRUE

\* a request arrives while others may be in flight
ConcRequest(s, u) ==
  /\ alive
  /\ flights[s].pc = "idle"
  /\ flights' = [flights EXCEPT ![s] =
                   [IdleFlight EXCEPT !.pc = "loop", !.url = u, !.idx = 1]]
  /\ UNCHANGED <<srvVars, reqVars, alive>>

\* the loop calls a custom handler, which suspends at an await of its own
ConcCallCustom(s, b) ==
  /\ alive
  /\ flights[s].pc = "loop"
  /\ handlers[flights[s].idx] = "custom"
  /\ flights' = [flights EXCEPT ![s].pc = "await",
                                ![s].acts = Append(@, b),
                                ![s].invoked = Append(@, flights[s].idx)]
  /\ UNCHANGED <<srvVars, reqVars, alive>>

\* the custom handler resumes, runs to its end, and the loop goes on
ConcResume(s) ==
  /\ alive
  /\ flights[s].pc = "await"
  /\ LET fl == flights[s]
         out == RunCustom(fl.res, fl.acts[Len(fl.acts)], fl.idx)
     IN flights' = [flights EXCEPT ![s] = AfterHandler(fl, out)]
  /\ UNCHANGED <<srvVars, reqVars, alive>>

\* the loop calls the static handler, which suspends at fs.readFile unless
\* the dotfile test throws first
ConcCallStatic(s) ==
  /\ alive
  /\ flights[s].pc = "loop"
  /\ handlers[flights[s].idx] = "static"
  /\ LET fl == [flights[s] EXCEPT !.invoked = Append(@, flights[s].idx)]
     IN flights' = [flights EXCEPT ![s] =
          IF DeniesDotfile(urlToPath(config.directory, fl.url))
          THEN AfterHandler(fl, ServeStatic(fl.res, fl.url))
          ELSE [fl EXCEPT !.pc = "read"]]
  /\ UNCHANGED <<srvVars, reqVars, alive>>

\* fs.readFile settles and the static handler runs to its end
ConcReadSettles(s) ==
  /\ alive
  /\ flights[s].pc = "read"
  /\ flights' = [flights EXCEPT ![s] =
                   AfterHandler(flights[s],
                                ServeStatic(flights[s].res, flights[s].url))]
  /\ UNCHANGED <<srvVars, reqVars, alive>>

\* the rest of the listener; a throw of the last writeHead rejects its promise
ConcTail(s) ==
  /\ alive
  /\ flights[s].pc = "tail"
  /\ LET t == ListenerTail(flights[s].res, flights[s].err)
     IN flights' = [flights EXCEPT ![s].res = t.res,
                                   ![s].pc = IF t.threw THEN "escaped"
                                             ELSE "done"]
  /\ UNCHANGED <<srvVars, reqVars, alive>>

\* the request is over and its objects are dropped
ConcFinish(s) ==
  /\ alive
  /\ flights[s].pc = "done"
  /\ flights' = [flights EXCEPT ![s] = IdleFlight]
  /\ UNCHANGED <<srvVars, reqVars, alive>>

\* the rejected promise of a listener call is unhandled; a runtime whose
\* unhandled-rejections mode is 'warn' prints a warning and goes on
ConcRejectionWarned(s) ==
  /\ alive
  /\ flights[s].pc = "escaped"
  /\ flights' = [flights EXCEPT ![s] = IdleFlight]
  /\ UNCHANGED <<srvVars, reqVars, alive>>

\* a runtime whose unhandled-rejections mode is 'throw' (the default from
\* Node 15 on) raises it as an uncaught exception: the process dies with
\* every request in flight
ConcRejectionFatal(s) ==
  /\ alive
  /\ flights[s].pc = "escaped"
  /\ alive' = FALSE
  /\ UNCHANGED <<srvVars, reqVars, flights>>

NextConc ==
  \/ \E s \in Slots, u \in ConcUrls : ConcRequest(s, u)
  \/ \E s \in Slots, b \in ConcBehaviours : ConcCallCustom(s, b)
  \/ \E s \in Slots : ConcResume(s)
  \/ \E s \in Slots : ConcCallStatic(s)
  \/ \E s \in Slots : ConcReadSettles(s)
  \/ \E s \in Slots : ConcTail(s)
  \/ \E s \in Slots : ConcFinish(s)
  \/ \E s \in Slots : ConcRejectionWarned(s)
  \/ \E s \in Slots : ConcRejectionFatal(s)

SpecConc == InitConc /\ [][NextConc]_vars

(***************************************************************************)
(* Properties                                                              *)
(***************************************************************************)
\* the listener has returned, or its promise is rejected
Terminal == pc \in {"done", "escaped"}

\* getStaticFile has returned or raised for the request in flight
Settled == sf.called /\ sf.outcome # "pending"

RootPath == Resolve(config.directory)

IsErrorResponse(r, code, phrase) ==
  /\ r.writableEnded
  /\ r.statusCode = code
  /\ r.contentType = "text/plain"
  /\ r.body = TextBody(phrase)

\* C1: handlers are invoked in list order from the first, one at a time, and
\* handler i+1 is invoked only if handler i returned having called next() with
\* the response not finalized; a handler that finalizes the response ends the
\* chain even if it calls next(), and the response stays the one it wrote.
ChainInOrder ==
  /\ invoked = [i \in 1..Len(invoked) |-> i]
  /\ Len(invoked) <= Len(handlers)
  /\ Len(hist) <= Len(invoked)
  /\ Len(invoked) <= Len(hist) + 1
  /\ \A i \in 2..Len(invoked) :
       /\ hist[i - 1].next
       /\ ~hist[i - 1].res.writableEnded
       /\ hist[i - 1].thrown = "none"
  /\ \A i \in 1..Len(hist) :
       hist[i].res.writableEnded => Len(invoked) = i /\ res = hist[i].res

\* C1 witness: the README handler (writeHead, end, then next) ran first of two
\* handlers and the request is over
ReadmeHandlerEndsChain ==
  /\ pc = "done"
  /\ Len(handlers) >= 2
  /\ invoked = <<1>>
  /\ hist[1].next
  /\ hist[1].thrown = "none"
  /\ res.writableEnded
  /\ res.body = HandlerBody(1)

\* C2: the listener never lets an exception escape: the promise it returns is
\* never rejected, whatever the handlers did.
ListenerNeverRaises == pc # "escaped"

\* C3: when the listener is over the response is finalized.
TerminalIsFinalized == Terminal => res.writableEnded

\* C4: nothing is written to a response that is already finalized.
NoWriteAfterFinalized == ~lateWrite

\* C5 as stated: when the loop stops with the response not finalized and no
\* error raised, the client gets 404, text/plain, "Not Found".
UnansweredGets404 ==
  (Terminal /\ unanswered # "no") => IsErrorResponse(res, 404, "Not Found")

\* C5 amended: when the loop stops with the response not finalized, no error
\* raised and no headers sent, the listener returns and the client gets 404,
\* text/plain, "Not Found".
UnansweredUnsentGets404 ==
  /\ unanswered = "clean" => pc \in {"catch", "render", "done"}
  /\ (Terminal /\ unanswered = "clean") =>
       pc = "done" /\ IsErrorResponse(res, 404, "Not Found")

\* C5 witness: a handler neither continued nor responded and the request ended
SilentHandlerGot404 ==
  /\ pc = "done"
  /\ unanswered = "clean"
  /\ Len(hist) >= 1
  /\ ~hist[Len(hist)].next
  /\ res.statusCode = 404

\* C6 as stated: when a handler throws a value that is not an HttpError the
\* client gets 500, text/plain, "Internal Server Error" and no later handler runs.
RawThrowGets500 ==
  \A i \in 1..Len(hist) :
    (Terminal /\ hist[i].thrown = "Error") =>
      Len(invoked) = i /\ IsErrorResponse(res, 500, "Internal Server Error")

\* C6 amended: when a handler throws a value that is not an HttpError and no
\* headers have been sent by then, the client gets 500, text/plain,
\* "Internal Server Error"; in every case no later handler runs.
RawThrowUnsentGets500 ==
  \A i \in 1..Len(hist) :
    hist[i].thrown = "Error" =>
      /\ Len(invoked) = i
      /\ (Terminal /\ ~hist[i].res.headersSent) =>
           pc = "done" /\ IsErrorResponse(res, 500, "Internal Server Error")

\* C6 witness: the first of several handlers threw a plain error before any
\* write and the request ended
RawThrowAnswered ==
  /\ pc = "done"
  /\ Len(handlers) >= 2
  /\ Len(hist) = 1
  /\ hist[1].thrown = "Error"
  /\ ~hist[1].res.headersSent
  /\ res.statusCode = 500

\* C7: every path handed to fs.readFile lies inside the root directory, and a
\* file body in the response is that of a file inside the root.
ReadsStayInsideRoot ==
  /\ \A i \in 1..Len(reads) : IsPrefix(RootPath, reads[i])
  /\ res.body.kind = "file" => IsPrefix(RootPath, res.body.path)

\* C8: when the base name of the resolved path starts with a dot, getStaticFile
\* raises HttpError 403 without reading anything, whatever the path is on disk;
\* no response carries the content of such a file.
DotfileDenied ==
  /\ (sf.called /\ StartsWithDot(Base(sf.path))) =>
       /\ ~sf.read
       /\ reads = <<>>
       /\ sf.result.kind = "HttpError"
       /\ sf.result.statusCode = 403
  /\ res.body.kind = "file" => ~StartsWithDot(Base(res.body.path))
  /\ \A i \in 1..Len(reads) : ~StartsWithDot(Base(reads[i]))

\* C8 witness: a request for a dotfile that exists and is readable was answered
ExistingDotfileRefused ==
  /\ pc = "done"
  /\ sf.called
  /\ StartsWithDot(Base(sf.path))
  /\ ReadFile(sf.path) = "OK"
  /\ res.statusCode = 403

\* C9 as stated: a URL without trailing separator that maps to an existing
\* directory resolves to 302, an empty body and Location = URL plus "/".
DirectoryRedirects ==
  (Settled /\ ~EndsWithSlash(url) /\ Stat(sf.path) = "DIR") =>
    sf.result = Returned(302, "", url \o <<"/">>, TextBody(""))

\* C9 amended: a URL without trailing separator that maps to an existing,
\* readable directory whose base name does not start with a dot resolves to
\* 302, an empty body and Location = URL plus "/".
PlainDirectoryRedirects ==
  (/\ Settled
   /\ ~EndsWithSlash(url)
   /\ Stat(sf.path) = "DIR"
   /\ Kind(sf.path) = "dir"
   /\ ~StartsWithDot(Base(sf.path))) =>
    sf.result = Returned(302, "", url \o <<"/">>, TextBody(""))

\* C9 witness: GET /docs was redirected to /docs/
DocsRedirected ==
  /\ pc = "done"
  /\ url = <<"/", "docs">>
  /\ sf.path = <<PubS, DocsS>>
  /\ res.statusCode = 302
  /\ res.location = <<"/", "docs", "/">>

\* C10: getStaticFile returns a 200 or a 302 result or raises an HttpError and
\* nothing else: permission denied gives 403, a missing file 404, a directory
\* the 302, and every other failure of the read 500.
FailureMappingTotal ==
  Settled =>
    /\ sf.result.kind \in {"return", "HttpError"}
    /\ sf.result.kind = "return" => sf.result.statusCode \in {200, 302}
    /\ sf.result.kind = "HttpError" => sf.result.statusCode \in {403, 404, 500}
    /\ sf.read =>
         /\ sf.outcome = "OK" <=> sf.result.statusCode = 200
         /\ sf.outcome = "EISDIR" <=> sf.result.statusCode = 302
         /\ sf.outcome = "EACCES" <=> sf.result.statusCode = 403
         /\ sf.outcome = "ENOENT" <=> sf.result.statusCode = 404
         /\ Stat(sf.path) = "ENOENT" => sf.result.statusCode = 404
         /\ sf.outcome \notin {"OK", "EISDIR", "EACCES", "ENOENT"}
              <=> sf.result.statusCode = 500

\* C10 witness: a read failed with an error other than EACCES, EISDIR and
\* ENOENT and the client was answered with the 500
UnknownFailureGot500 ==
  /\ pc = "done"
  /\ sf.read
  /\ sf.outcome = "ENOTDIR"
  /\ sf.result.kind = "HttpError"
  /\ res.statusCode = 500

\* C11: a file read successfully is returned, and written to the response,
\* with no Content-Type header when the MIME table does not know its extension,
\* and with the table's value when it does.
ContentTypeFromTable ==
  /\ (Settled /\ sf.outcome = "OK") =>
       sf.result.contentType =
         (IF Ext(Base(sf.path)) = <<".", "html">>
          THEN "text/html; charset=utf-8" ELSE "")
  /\ res.body.kind = "file" =>
       res.contentType =
         (IF Ext(Base(res.body.path)) = <<".", "html">>
          THEN "text/html; charset=utf-8" ELSE "")

\* C12: with a directory configured the static handler is the last of the
\* list; it is invoked only after every custom handler has run, in order, and
\* continued without finalizing the response; a custom handler that finalizes
\* or does not continue prevents the static lookup.
StaticHandlerIsLast ==
  /\ (server # "init" /\ server # "exited" /\ config.directory # <<>>) =>
       /\ Len(handlers) = Len(config.handlers) + 1
       /\ handlers[Len(handlers)] = "static"
       /\ \A i \in 1..Len(config.handlers) : handlers[i] = "custom"
  /\ sf.called =>
       /\ Len(invoked) = Len(handlers)
       /\ \A i \in 1..Len(invoked) : invoked[i] = i
       /\ \A i \in 1..(Len(handlers) - 1) :
            /\ handlers[i] = "custom"
            /\ hist[i].next
            /\ hist[i].thrown = "none"
            /\ ~hist[i].res.writableEnded
  /\ \A i \in 1..Len(hist) :
       (handlers[i] = "custom" /\ (~hist[i].next \/ hist[i].res.writableEnded))
         => (~sf.called /\ reads = <<>>)

\* two custom handlers continued and the static handler has looked the file up
StaticRanAfterTwoCustom ==
  /\ Len(config.handlers) = 2
  /\ Settled
  /\ Len(hist) = 3
  /\ hist[1].next /\ hist[2].next

\* a custom handler finalized the response and continued: no static lookup
FinalizingHandlerStopsChain ==
  /\ Terminal
  /\ Len(hist) = 1
  /\ Len(handlers) > 1
  /\ hist[1].next /\ hist[1].res.writableEnded

\* C13: when the configured directory is missing, not accessible or not a
\* directory, no server is ever created or bound, and the process exits with a
\* non-zero status having reported "directory not found", "permission denied"
\* or "not a directory" respectively.
InvalidDirectoryIsFatal ==
  LET st == Stat(Resolve(config.directory)) IN
  (config.directory # <<>> /\ st \in {"ENOENT", "EACCES", "NOTDIR"}) =>
    /\ server \in {"init", "exited"}
    /\ handlers = <<>>
    /\ pc = "idle"
    /\ server = "exited" =>
         /\ exitCode > 0
         /\ message.text = (CASE st = "ENOENT" -> "directory not found"
                              [] st = "EACCES" -> "permission denied"
                              [] st = "NOTDIR" -> "not a directory")

\* the directory is a regular file and the process has exited
FileAsDirectoryExited ==
  /\ Kind(Resolve(config.directory)) = "file"
  /\ server = "exited"
  /\ message.text = "not a directory"

\* C14: every failure of the bootstrap sequence, a failure to bind reported
\* after listen() was called included, ends in the top-level handler of
\* staticServer: a message is logged after 'Server error' and the process
\* exits with status 1.
BootFailureCaught ==
  (server \notin {"init", "binding", "listening"}) =>
    /\ server = "exited"
    /\ exitCode = 1
    /\ message # NoMessage

\* C16: every request leaves exactly one status line on the log, and its status
\* is the status sent to the client, whether a handler finalized the response,
\* an HttpError was raised or an unexpected exception was answered with a 500.
OneStatusLine ==
  Terminal => (Len(log) = 1 /\ log[1] = res.statusCode)

\* C17: constructing an HttpError fails exactly when the code is below 400 or
\* above 599; otherwise the value has that code as statusCode and the standard
\* reason phrase of the code as statusMessage; without a code the value is a
\* 400.
HttpErrorRange ==
  \A i \in 1..Len(hist) : \A k \in 1..Len(hist[i].made) :
    LET m == hist[i].made[k]
        code == IF m.args = <<>> THEN 400 ELSE m.args[1]
    IN /\ (m.value.kind # "HttpError") <=> (code < 400 \/ code > 599)
       /\ m.value.kind = "HttpError" =>
            /\ m.value.statusCode = code
            /\ code = 400 => m.value.statusMessage = "Bad Request"
       /\ m.args = <<>> =>
            (m.value.kind = "HttpError" /\ m.value.statusCode = 400)

\* a handler constructed an HttpError without a code and the client got the 400
DefaultCodeAnswered ==
  /\ pc = "done"
  /\ Len(hist) = 1
  /\ Len(hist[1].made) = 1
  /\ hist[1].made[1].args = <<>>
  /\ IsErrorResponse(res, 400, "Bad Request")

\* C18: a 302 is produced only for a request URL that does not end in a path
\* separator, whatever the directory holds, so that a client following the
\* Location header is not redirected again.
RedirectOnlyWithoutSlash ==
  (Settled /\ sf.result.kind = "return" /\ sf.result.statusCode = 302) =>
    ~EndsWithSlash(url)

\* the response as the static handler found it
BeforeStatic ==
  IF Len(hist) > 1 THEN hist[Len(hist) - 1].res ELSE FreshResponse

\* what the static handler did with the settled result of getStaticFile
StaticContract ==
  LET e == hist[Len(hist)]
      r == sf.result
  IN /\ e.next <=> (r.kind = "HttpError" /\ r.statusCode = 404)
     /\ e.next => e.res = BeforeStatic
     /\ r.kind = "return" =>
          /\ r.statusCode \in {200, 302}
          /\ e.res.writableEnded
          /\ e.res.statusCode = r.statusCode
          /\ e.res.contentType = r.contentType
          /\ e.res.location = r.location
          /\ e.res.body = r.body
          /\ e.thrown = "none"
     /\ (r.kind = "HttpError" /\ r.statusCode # 404) =>
          /\ r.statusCode \in {403, 500}
          /\ e.thrown = "HttpError"
          /\ e.res = BeforeStatic
          /\ Len(invoked) = Len(hist)
          /\ Terminal =>
               IsErrorResponse(res, r.statusCode,
                               IF r.statusCode = 403 THEN "Forbidden"
                               ELSE "Internal Server Error")

\* C19 (as stated): the static handler continues exactly on a 404, writing
\* nothing; on a 200 or 302 it writes status, headers and body and finalizes
\* without continuing; on a 403 or 500 it raises without continuing and the
\* client receives that status with a text/plain reason phrase.
StaticHandlerContract ==
  Settled => StaticContract

\* C19 (amended): the same, for a static handler that finds a response whose
\* headers have not been sent.
StaticHandlerContractUnsent ==
  (Settled /\ ~BeforeStatic.headersSent) => StaticContract

\* an inaccessible file was refused after a custom handler continued
InaccessibleFileRefused ==
  /\ pc = "done"
  /\ Len(hist) = 2
  /\ sf.outcome = "EACCES"
  /\ hist[2].thrown = "HttpError"
  /\ IsErrorResponse(res, 403, "Forbidden")

\* C20: staticServer leaves the caller's handlers list as it was given, and
\* once the server is created the list the request listener iterates over
\* never changes, whatever requests are handled.
ConfigFrozen ==
  [][ /\ config' = config
      /\ (server # "init") => (handlers' = handlers) ]_vars

\* a request was answered by a server built from two custom handlers: the
\* listener's list is the caller's plus the static handler, the caller's is
\* as given
ServedFromCopy ==
  /\ server = "listening"
  /\ pc = "done"
  /\ Len(config.handlers) = 2
  /\ Len(handlers) = 3
  /\ Len(hist) > 0

\* the listener run alone from handler i on, for url u, with the custom
\* handlers behaving as in acts: position reached, response, handlers invoked
RECURSIVE SoloFrom(_, _, _, _, _)
SoloFrom(u, acts, i, r, inv) ==
  IF handlers[i] = "custom" /\ i > Len(acts)
  THEN [pc |-> "await", res |-> r, invoked |-> inv]
  ELSE LET out == IF handlers[i] = "custom" THEN RunCustom(r, acts[i], i)
                  ELSE ServeStatic(r, u)
           t == ListenerTail(out.res, out.thrown)
       IN IF /\ out.thrown.kind = "none"
             /\ ~ShouldBreak(out.next, out.res)
             /\ i < Len(handlers)
          THEN SoloFrom(u, acts, i + 1, out.res, Append(inv, i))
          ELSE [pc |-> IF t.threw THEN "escaped" ELSE "done",
                res |-> t.res, invoked |-> Append(inv, i)]

Solo(u, acts) == SoloFrom(u, acts, 1, FreshResponse, <<>>)

\* a finished request is where it would be had it run alone
SameAsAlone(fl) ==
  (fl.pc \in {"done", "escaped"}) =>
    [pc |-> fl.pc, res |-> fl.res, invoked |-> fl.invoked]
      = Solo(fl.url, fl.acts)

\* while the process lives, interleaving changes nothing for any request
IsolatedWhileAlive ==
  \A s \in Slots : SameAsAlone(flights[s])

\* C15: with requests interleaved at every await, each request invokes the
\* handlers and gets the final response it would get alone; a fault in one
\* request, a 500 included, changes nothing for another: in particular no
\* request is cut off before its response is complete.
RequestsIsolated ==
  \A s \in Slots :
    /\ SameAsAlone(flights[s])
    /\ ~alive => flights[s].pc \in {"idle", "done", "escaped"}

====
